---- MODULE Spec2Model ----
(***************************************************************************)
(* A model of UniversalDownloader.py: the audio verification predicate,    *)
(* the FLAC conversion pipeline, the configuration loader, the download    *)
(* flow with its hooks, the thread-pool batch mode and the interactive     *)
(* loop.                                                                   *)
(*                                                                         *)
(* Python values are modelled as follows: the booleans and None returned   *)
(* by the methods are the strings "True", "False" and "None" (a method     *)
(* that falls off its end returns "None"); a file is a record; durations   *)
(* are in milliseconds; a dict is a function on a subset of its keys.      *)
(***************************************************************************)
EXTENDS Integers, Sequences, FiniteSets, TLC

VARIABLES
    fs,        \* the file system: path -> file
    cpc,       \* convert_to_flac: "idle", "except", "returned", "raised"
    cin,       \* convert_to_flac: input_file of the call in progress
    cout,      \* convert_to_flac: output_file of the call in progress
    cenc,      \* what the encoder binary does when it is run on this call
    cstage,    \* the last stage of the try body the call got to
    cexc,      \* the exception raised in the try body ("" when none)
    cres,      \* the value convert_to_flac returned ("none" before it returns)
    cprinted,  \* whether the "Conversion Failed" message was printed
    cprior,    \* whether the output path existed when the call began
    clines,    \* the progress lines the encoder wrote on its standard output
    cbar,      \* the position the conversion's bar got to (NoBar: never made)
    vpath,     \* the argument of the last direct verify_audio_file call
    vres,      \* its return value
    ncalls,    \* calls made so far
    \* batch_download and the downloads its worker threads run
    bpc,       \* batch_download: "idle", "collecting", "returned"
    burls,     \* the number of URLs of the batch; URL i is submitted as future i
    bok,       \* URL -> whether its retrieval succeeds (it fails by raising)
    bwidth,    \* config['max_concurrent'], the width of the worker pool
    tpc,       \* future -> where its download call stands
    tpct,      \* future -> the percentage of the progress event being handled
    tev,       \* future -> 'downloading' events delivered so far
    tres,      \* future -> the value download returned ("none" before that)
    hasPbar,   \* whether the manager has the attribute pbar
    lastPct,   \* self.last_percentage
    pbarPos,   \* the position of the bar self.pbar (the n of its tqdm), 0 without one
    topPct,    \* the highest percentage reported since last_percentage was reset
    bres,      \* the list batch_download builds
    bsrc,      \* for each element of bres, the future it was taken from
    \* the configuration file and the start of a run of the program
    cfgFile,   \* config.json: absent, unreadable as JSON, or a JSON object
    defaults,  \* the module-level dict DEFAULT_CONFIG of the running process
    config,    \* the dict load_config returned, as the caller holds it
    aliased,   \* whether that dict is the object DEFAULT_CONFIG itself
    created,   \* whether this run's load_config created the file
    ppc,       \* where the run stands
    penv,      \* the machine: where the encoder is, what the user asked for
    dirs,      \* the directories verify_paths has made
    pgiven,    \* config['ffmpeg_location'] as DownloadManager got it ("-": not called)
    nruns,     \* runs of the program so far
    \* one call of download, with its options and the post-processing hook
    dpc,       \* download: "idle", "extract", "retrieve", "postprocess", "done"
    dreq,      \* the URL and the keyword arguments of the call
    dlib,      \* what the extraction library does on this call
    dopts,     \* the options map handed to the library
    dcalls,    \* the methods of the manager the call has run so far
    dhooked,   \* the post-processing events post_process_hook has handled
    dmsgs,     \* what post_process_hook has printed
    dres,      \* the value download returned ("none" before that)
    \* interactive_mode
    ipc,       \* "idle", "prompt", "download", "handler", "returned"
    istream,   \* the lines the user has yet to type, each a sequence of words
    iend,      \* what input() does once they are read: "eof" or "interrupt"
    icall,     \* the URL and options of the last download the loop asked for
    idone      \* the results of the downloads the loop has made

convVars == <<fs, cpc, cin, cout, cenc, cstage, cexc, cres, cprinted, cprior, clines, cbar,
              vpath, vres, ncalls>>
batchVars == <<bpc, burls, bok, bwidth, tpc, tpct, tev, tres, hasPbar, lastPct, pbarPos,
               topPct, bres, bsrc>>

cfgVars == <<cfgFile, defaults, config, aliased, created, ppc, penv, dirs, pgiven, nruns>>

dlVars == <<dpc, dreq, dlib, dopts, dcalls, dhooked, dmsgs, dres>>

intVars == <<ipc, istream, iend, icall, idone>>

vars == <<convVars, batchVars, cfgVars, dlVars, intVars>>

notConv == <<batchVars, cfgVars, dlVars, intVars>>
notBatch == <<convVars, cfgVars, dlVars, intVars>>
notCfg == <<convVars, batchVars, dlVars, intVars>>
notDl == <<convVars, batchVars, cfgVars, intVars>>
notInt == <<convVars, batchVars, cfgVars, dlVars>>

----------------------------------------------------------------------------
(* Bounds of the model *)

MaxCalls == 2
MaxUrls == 2
MaxWorkers == 2
MaxEvents == 1
MaxRuns == 2
MaxPostEvents == 2
MaxLines == 2
MaxTyped == 2

----------------------------------------------------------------------------
(* Python values *)

PyTrue == "True"
PyFalse == "False"
PyNone == "None"

\* Python's truth value of what a method returned: None and False are falsy.
Truthy(v) == v = PyTrue

----------------------------------------------------------------------------
(* Files *)

InPaths == {"song.wav", "song.flac"}
OutPath == "out.flac"
Paths == InPaths \cup {OutPath}

\* filepath.lower().endswith('.flac')
IsFlacName(p) == p \in {"song.flac", "out.flac"}

NoFile == [kind |-> "absent", flacdata |-> FALSE, ch |-> 0, rate |-> 0, size |-> 0,
           tags |-> "none", len |-> 0, fixed |-> FALSE]
Directory == [NoFile EXCEPT !.kind = "dir"]

Channels == {1, 2, 6}
Rates == {22050, 44100, 48000, 96000}
Sizes == {102399, 102400}
InLen == 5000

AudioFile(fd, c, r, s, t, l) ==
    [kind |-> "file", flacdata |-> fd, ch |-> c, rate |-> r, size |-> s, tags |-> t, len |-> l,
     fixed |-> FALSE]

\* the files a caller may hand to the program as input
NonFlacAudio == AudioFile(FALSE, 2, 48000, 2000000, "none", InLen)
InputFiles ==
    {NoFile, NonFlacAudio} \cup
    {AudioFile(TRUE, c, r, s, t, InLen) :
        c \in Channels, r \in Rates, s \in Sizes, t \in {"none", "some"}}

\* what may already be at the output path before a call
GoodFlac(l) == AudioFile(TRUE, 2, 48000, 2000000, "none", l)
\* a file that can be written but not unlinked (its directory is read-only)
Fixed(file) == [file EXCEPT !.fixed = TRUE]
PriorOutputs == {NoFile, Directory, GoodFlac(InLen), Fixed(GoodFlac(InLen + 700))}

\* what the encoder may leave at the output path
EncoderOutputs ==
    {NoFile, GoodFlac(InLen), GoodFlac(InLen + 100), GoodFlac(InLen + 101),
     AudioFile(TRUE, 2, 22050, 2000000, "none", InLen),
     AudioFile(TRUE, 2, 48000, 4096, "none", InLen)}

\* the behaviour of the external encoder on one call: whether the process
\* can be launched, its exit code, and the file it leaves
NoEncoder == [launch |-> FALSE, rc |-> 0, out |-> NoFile]
Encoders == {NoEncoder} \cup [launch : {TRUE}, rc : {0, 1}, out : EncoderOutputs]

\* os.path.exists
Exists(f, p) == f[p].kind # "absent"

\* the encoder cannot leave a file where a directory is: it fails
EncoderCan(f, out, enc) ==
    f[out].kind = "dir" => (enc.out = NoFile /\ (enc.launch => enc.rc # 0))

\* the encoder writes its output over what is at the path
Written(old, new) == [new EXCEPT !.fixed = old.fixed]

----------------------------------------------------------------------------
(* verify_audio_file *)

MinFlacSize == 1024 * 100
ToleranceMs == 100

AcceptedChannels == {1, 2}
AcceptedRates == {44100, 48000, 96000}

\* FLAC(filepath) raises unless the path holds a file mutagen reads as FLAC
FlacOpens(f, p) == f[p].kind = "file" /\ f[p].flacdata

\* lines 206-209: a FLAC without tags gets an empty tag block, saved to disk
InitTags(f, p) ==
    IF f[p].tags \in {"none", "empty"} THEN [f EXCEPT ![p].tags = "empty"] ELSE f

\* what the method returns when no check rejects the file: the body ends at
\* line 226 without a return statement
VerifyFallThrough == PyNone

\* verify_audio_file(filepath): the value returned and the file system after
verify_audio_file(f, p) ==
    IF ~IsFlacName(p) THEN [ret |-> VerifyFallThrough, fs |-> f]
    ELSE IF ~FlacOpens(f, p) THEN [ret |-> PyFalse, fs |-> f]
    ELSE LET g == InitTags(f, p) IN
         IF g[p].ch \notin AcceptedChannels THEN [ret |-> PyFalse, fs |-> g]
         ELSE IF g[p].rate \notin AcceptedRates THEN [ret |-> PyFalse, fs |-> g]
         ELSE IF g[p].size < MinFlacSize THEN [ret |-> PyFalse, fs |-> g]
         ELSE [ret |-> VerifyFallThrough, fs |-> g]

\* the three conditions of the verification predicate
SatisfiesConditions(file) ==
    /\ file.kind = "file"
    /\ file.ch \in AcceptedChannels
    /\ file.rate \in AcceptedRates
    /\ file.size >= MinFlacSize

----------------------------------------------------------------------------
(* convert_to_flac *)

Abs(x) == IF x < 0 THEN -x ELSE x

\* abs(orig_info.length - conv_info.length) > 0.1
DurationMismatch(a, b) == Abs(a - b) > ToleranceMs

NoBar == 0 - 1

Raise(f, stage, msg) == [fs |-> f, stage |-> stage, exc |-> msg, bar |-> NoBar]

\* a line of the encoder's progress stream: whether it holds 'out_time_ms=',
\* whether int() accepts what follows the '=', and the number it yields
OtherLine == [key |-> FALSE, int |-> FALSE, ms |-> 0]
BadLine == [key |-> TRUE, int |-> FALSE, ms |-> 0]
TimeLine(ms) == [key |-> TRUE, int |-> TRUE, ms |-> ms]
Lines == {OtherLine, BadLine, TimeLine(0 - 40), TimeLine(2000), TimeLine(5000),
          TimeLine(9000)}

RECURSIVE SeqsUpTo(_, _)
SeqsUpTo(S, n) ==
    IF n = 0 THEN {<<>>}
    ELSE LET shorter == SeqsUpTo(S, n - 1) IN
         shorter \cup {Append(q, x) : q \in {r \in shorter : Len(r) = n - 1}, x \in S}

\* int() cuts towards zero
IntOfQuotient(a, b) == IF a >= 0 THEN a \div b ELSE -((-a) \div b)

Min(a, b) == IF a < b THEN a ELSE b

\* line 276: min(int((time_ms / 1000) / original_audio.info.length * 100), 100),
\* the length being in milliseconds here
ProgressOf(ms, length) == Min(IntOfQuotient(ms * 100, length), 100)

\* lines 273-281 for one line: last_progress and the position of the bar
\* after it; a line int() rejects is skipped (ValueError, line 280)
MonitorLine(st, line, length) ==
    IF line.key /\ line.int /\ ProgressOf(line.ms, length) > st.last
    THEN [last |-> ProgressOf(line.ms, length),
          bar |-> st.bar + (ProgressOf(line.ms, length) - st.last)]
    ELSE st

\* lines 267-281: the loop over the lines, from last_progress = 0 and a new bar
RECURSIVE Monitor(_, _)
Monitor(lines, length) ==
    IF lines = <<>> THEN [last |-> 0, bar |-> 0]
    ELSE MonitorLine(Monitor(SubSeq(lines, 1, Len(lines) - 1), length),
                     lines[Len(lines)], length)

\* a line that makes line 276 divide by zero
DividesByZero(lines, length) ==
    length = 0 /\ \E k \in DOMAIN lines : lines[k].key /\ lines[k].int

\* lines 294-298: copy the input's tags onto the output and save
CopyTags(f, in, out) ==
    IF f[in].tags = "some" THEN [f EXCEPT ![out].tags = "some"] ELSE f

\* the try body, lines 235-307: the file system it leaves, the stage it got
\* to and the exception it raised ("" when it reached return True)
TryBody(f, in, out, enc, lines) ==
    LET v1 == verify_audio_file(f, in) IN
    IF ~Truthy(v1.ret) THEN Raise(v1.fs, "preverify", "Input file verification failed")
    ELSE LET f1 == v1.fs IN
    IF f1[in].kind # "file" THEN Raise(f1, "metadata", "mutagen or getsize failed")
    ELSE IF ~enc.launch THEN [Raise(f1, "launch", "Popen failed") EXCEPT !.bar = 0]
    ELSE LET f2 == IF enc.out.kind = "absent" THEN f1
                   ELSE [f1 EXCEPT ![out] = Written(f1[out], enc.out)] IN
    IF DividesByZero(lines, f1[in].len)
    THEN Raise(f2, "monitor", "float division by zero")
    ELSE LET bar == Monitor(lines, f1[in].len).bar IN
    IF enc.rc # 0 THEN [Raise(f2, "exit", "FFmpeg conversion failed") EXCEPT !.bar = bar]
    ELSE LET v2 == verify_audio_file(f2, out) IN
    IF ~Truthy(v2.ret)
    THEN [Raise(v2.fs, "postverify", "Output file verification failed") EXCEPT !.bar = bar]
    ELSE LET f3 == CopyTags(v2.fs, in, out) IN
    IF DurationMismatch(f3[in].len, f3[out].len)
    THEN [Raise(f3, "duration", "Duration mismatch between input and output files")
             EXCEPT !.bar = bar]
    ELSE [fs |-> f3, stage |-> "success", exc |-> "", bar |-> bar]

\* os.remove(output_file) raises on a directory and on a file that cannot
\* be unlinked
Removable(file) == file.kind = "file" /\ ~file.fixed

\* a handler that leaves the output where it is
CleanupKeeps(f, out) == f

\* lines 311-312 of the handler: the file system after the cleanup
Cleanup(f, out) == IF Exists(f, out) THEN [f EXCEPT ![out] = NoFile] ELSE f

----------------------------------------------------------------------------
(* Operations on the conversion component *)

ConvInit ==
    /\ \E p \in InPaths, file \in InputFiles, prior \in PriorOutputs :
          fs = [q \in Paths |-> IF q = p THEN file ELSE IF q = OutPath THEN prior ELSE NoFile]
    /\ cpc = "idle"
    /\ cin = "" /\ cout = ""
    /\ cenc = NoEncoder
    /\ cstage = "" /\ cexc = ""
    /\ cres = "none"
    /\ cprinted = FALSE
    /\ cprior = FALSE
    /\ clines = <<>> /\ cbar = NoBar
    /\ vpath = "" /\ vres = "none"
    /\ ncalls = 0

\* the conversion component at rest
ConvIdle ==
    /\ fs = [q \in Paths |-> NoFile]
    /\ cpc = "idle"
    /\ cin = "" /\ cout = ""
    /\ cenc = NoEncoder
    /\ cstage = "" /\ cexc = ""
    /\ cres = "none"
    /\ cprinted = FALSE
    /\ cprior = FALSE
    /\ clines = <<>> /\ cbar = NoBar
    /\ vpath = "" /\ vres = "none"
    /\ ncalls = 0

\* a direct call verify_audio_file(p), as post_process_hook makes it
VerifyCall(p) ==
    /\ cpc = "idle" /\ ncalls < MaxCalls
    /\ LET v == verify_audio_file(fs, p) IN
          /\ fs' = v.fs
          /\ vres' = v.ret
    /\ vpath' = p
    /\ ncalls' = ncalls + 1
    /\ UNCHANGED <<cpc, cin, cout, cenc, cstage, cexc, cres, cprinted, cprior, clines, cbar>>
    /\ UNCHANGED notConv

\* the progress streams the encoder may write on a call: it writes none
\* unless the call gets to launch it (line 259)
ProgressStreams(f, in, enc) ==
    IF Truthy(verify_audio_file(f, in).ret) /\ enc.launch
    THEN SeqsUpTo(Lines, MaxLines)
    ELSE {<<>>}

\* convert_to_flac(in, out), lines 234-307: the try body, run with an encoder
\* that behaves as enc
ConvertTry(in, out, enc) ==
    /\ cpc = "idle" /\ ncalls < MaxCalls
    /\ EncoderCan(fs, out, enc)
    /\ cprior' = Exists(fs, out)
    /\ \E lines \in ProgressStreams(fs, in, enc) :
       LET t == TryBody(fs, in, out, enc, lines) IN
          /\ clines' = lines
          /\ cbar' = t.bar
          /\ fs' = t.fs
          /\ cstage' = t.stage
          /\ cexc' = t.exc
          /\ cpc' = IF t.exc = "" THEN "returned" ELSE "except"
          /\ cres' = IF t.exc = "" THEN PyTrue ELSE "none"
    /\ cin' = in /\ cout' = out /\ cenc' = enc
    /\ cprinted' = FALSE
    /\ ncalls' = ncalls + 1
    /\ UNCHANGED <<vpath, vres>>
    /\ UNCHANGED notConv

\* the handler, lines 309-313: print, remove the output if it exists, return
\* False; os.remove is not guarded, so its failure leaves the function as an
\* exception
ConvertExcept ==
    /\ cpc = "except"
    /\ cprinted' = TRUE
    /\ IF Exists(fs, cout) /\ ~Removable(fs[cout])
       THEN /\ cpc' = "raised"
            /\ UNCHANGED <<fs, cres>>
       ELSE /\ fs' = Cleanup(fs, cout)
            /\ cres' = PyFalse
            /\ cpc' = "returned"
    /\ UNCHANGED <<cin, cout, cenc, cstage, cexc, cprior, clines, cbar, vpath, vres, ncalls>>
    /\ UNCHANGED notConv

\* the caller goes on after the call
ConvertDone ==
    /\ cpc \in {"returned", "raised"} /\ ncalls < MaxCalls
    /\ cpc' = "idle"
    /\ UNCHANGED <<fs, cin, cout, cenc, cstage, cexc, cres, cprinted, cprior, clines, cbar,
                   vpath, vres, ncalls>>
    /\ UNCHANGED notConv

ConvNext ==
    \/ \E p \in Paths : VerifyCall(p)
    \/ \E in \in InPaths, enc \in Encoders : ConvertTry(in, OutPath, enc)
    \/ ConvertExcept
    \/ ConvertDone

----------------------------------------------------------------------------
(* download as a worker thread of batch_download runs it, with progress_hook *)

Futures == 1..burls

\* the percentages a 'downloading' event may carry:
\* min(int(downloaded / total * 100), 100), or NoTotal when total is 0
NoTotal == 0 - 1
EventPcts == {NoTotal, 40, 100}

Running(i) == tpc[i] \notin {"queued", "done"}

\* ThreadPoolExecutor: a future starts when a worker is free, in submit order
MayStart(i) ==
    /\ tpc[i] = "queued"
    /\ \A j \in Futures : j < i => tpc[j] # "queued"
    /\ Cardinality({j \in Futures : Running(j)}) < bwidth

\* what download returns for a URL when nothing else touches the manager
AloneResult(i) == IF bok[i] THEN PyTrue ELSE PyFalse

Step(i, to) == tpc' = [tpc EXCEPT ![i] = to]

Return(i, v) ==
    /\ tpc' = [tpc EXCEPT ![i] = "done"]
    /\ tres' = [tres EXCEPT ![i] = v]

\* a worker takes future i from the queue and enters download (line 403)
Start(i) ==
    /\ bpc = "collecting" /\ MayStart(i)
    /\ Step(i, "reset_check")
    /\ UNCHANGED <<bpc, burls, bok, bwidth, tpct, tev, tres, hasPbar, lastPct, bres, bsrc>>
    /\ UNCHANGED <<pbarPos, topPct>>
    /\ UNCHANGED notBatch

\* line 425: if hasattr(self, 'pbar')
ResetCheck(i) ==
    /\ tpc[i] = "reset_check"
    /\ Step(i, IF hasPbar THEN "reset_del" ELSE "reset_pct")
    /\ UNCHANGED <<bpc, burls, bok, bwidth, tpct, tev, tres, hasPbar, lastPct, bres, bsrc>>
    /\ UNCHANGED <<pbarPos, topPct>>
    /\ UNCHANGED notBatch

\* line 426: delattr(self, 'pbar'); an AttributeError when the attribute is
\* gone by now, caught at line 454: download returns False
ResetDel(i) ==
    /\ tpc[i] = "reset_del"
    /\ IF hasPbar
       THEN /\ hasPbar' = FALSE /\ pbarPos' = 0
            /\ Step(i, "reset_pct")
            /\ UNCHANGED tres
       ELSE /\ Return(i, PyFalse)
            /\ UNCHANGED <<hasPbar, pbarPos>>
    /\ UNCHANGED <<bpc, burls, bok, bwidth, tpct, tev, lastPct, bres, bsrc>>
    /\ UNCHANGED topPct
    /\ UNCHANGED notBatch

\* line 427: self.last_percentage = 0, then the library is entered (line 429)
ResetPct(i) ==
    /\ tpc[i] = "reset_pct"
    /\ lastPct' = 0 /\ topPct' = 0
    /\ Step(i, "retrieve")
    /\ UNCHANGED <<bpc, burls, bok, bwidth, tpct, tev, tres, hasPbar, bres, bsrc>>
    /\ UNCHANGED pbarPos
    /\ UNCHANGED notBatch

\* the library raises (lines 443-450): download returns False
RetrievalFails(i) ==
    /\ tpc[i] = "retrieve" /\ ~bok[i]
    /\ Return(i, PyFalse)
    /\ UNCHANGED <<bpc, burls, bok, bwidth, tpct, tev, hasPbar, lastPct, bres, bsrc>>
    /\ UNCHANGED <<pbarPos, topPct>>
    /\ UNCHANGED notBatch

\* the highest of the percentages reported, a report counting when line 187
\* looks at it: a report without a total carries no percentage
Highest(top, p) == IF p # NoTotal /\ p > top THEN p ELSE top

\* the library calls progress_hook with status 'downloading' (line 179)
EventDownloading(i, p) ==
    /\ tpc[i] = "retrieve" /\ tev[i] < MaxEvents
    /\ tev' = [tev EXCEPT ![i] = @ + 1]
    /\ tpct' = [tpct EXCEPT ![i] = p]
    /\ Step(i, "h_check")
    /\ UNCHANGED <<bpc, burls, bok, bwidth, tres, hasPbar, lastPct, bres, bsrc>>
    /\ UNCHANGED <<pbarPos, topPct>>
    /\ UNCHANGED notBatch

\* line 184: if not hasattr(self, 'pbar')
HookCheck(i) ==
    /\ tpc[i] = "h_check"
    /\ Step(i, IF hasPbar THEN "h_compare" ELSE "h_create")
    /\ UNCHANGED <<bpc, burls, bok, bwidth, tpct, tev, tres, hasPbar, lastPct, bres, bsrc>>
    /\ UNCHANGED <<pbarPos, topPct>>
    /\ UNCHANGED notBatch

\* line 185: self.pbar = ColorProgressBar(100, ...)
HookCreate(i) ==
    /\ tpc[i] = "h_create"
    /\ hasPbar' = TRUE /\ pbarPos' = 0
    /\ Step(i, "h_compare")
    /\ UNCHANGED <<bpc, burls, bok, bwidth, tpct, tev, tres, lastPct, bres, bsrc>>
    /\ UNCHANGED topPct
    /\ UNCHANGED notBatch

\* lines 187-189: if total > 0 and percentage > self.last_percentage
Advances(p, last) == p # NoTotal /\ p > last

HookCompare(i) ==
    /\ tpc[i] = "h_compare"
    /\ IF Advances(tpct[i], lastPct)
       THEN Step(i, "h_update") /\ UNCHANGED tpct
       ELSE Step(i, "retrieve") /\ tpct' = [tpct EXCEPT ![i] = NoTotal]
    /\ UNCHANGED <<bpc, burls, bok, bwidth, tev, tres, hasPbar, lastPct, bres, bsrc>>
    /\ topPct' = Highest(topPct, tpct[i])
    /\ UNCHANGED pbarPos
    /\ UNCHANGED notBatch

\* lines 190-191: self.pbar.update(...); self.last_percentage = percentage.
\* Reading self.pbar raises AttributeError when the attribute is gone.
HookUpdate(i) ==
    /\ tpc[i] = "h_update"
    /\ IF hasPbar
       THEN /\ pbarPos' = pbarPos + (tpct[i] - lastPct)
            /\ lastPct' = tpct[i]
            /\ Step(i, "retrieve")
       ELSE /\ Step(i, "hook_raised")
            /\ UNCHANGED <<lastPct, pbarPos>>
    /\ tpct' = [tpct EXCEPT ![i] = NoTotal]
    /\ UNCHANGED <<bpc, burls, bok, bwidth, tev, tres, hasPbar, bres, bsrc>>
    /\ UNCHANGED topPct
    /\ UNCHANGED notBatch

\* the library calls progress_hook with status 'finished' (line 193);
\* line 194: if hasattr(self, 'pbar')
EventFinished(i) ==
    /\ tpc[i] = "retrieve" /\ bok[i]
    /\ Step(i, IF hasPbar THEN "f_close" ELSE "f_reset")
    /\ UNCHANGED <<bpc, burls, bok, bwidth, tpct, tev, tres, hasPbar, lastPct, bres, bsrc>>
    /\ UNCHANGED <<pbarPos, topPct>>
    /\ UNCHANGED notBatch

\* lines 195-196: self.pbar.close(); delattr(self, 'pbar')
FinishClose(i) ==
    /\ tpc[i] = "f_close"
    /\ IF hasPbar
       THEN /\ hasPbar' = FALSE /\ pbarPos' = 0
            /\ Step(i, "f_reset")
       ELSE /\ Step(i, "hook_raised")
            /\ UNCHANGED <<hasPbar, pbarPos>>
    /\ UNCHANGED <<bpc, burls, bok, bwidth, tpct, tev, tres, lastPct, bres, bsrc>>
    /\ UNCHANGED topPct
    /\ UNCHANGED notBatch

\* lines 197-198: self.last_percentage = 0; the hook returns
FinishReset(i) ==
    /\ tpc[i] = "f_reset"
    /\ lastPct' = 0 /\ topPct' = 0
    /\ Step(i, "finish")
    /\ UNCHANGED <<bpc, burls, bok, bwidth, tpct, tev, tres, hasPbar, bres, bsrc>>
    /\ UNCHANGED pbarPos
    /\ UNCHANGED notBatch

\* line 452: return True
DownloadReturns(i) ==
    /\ tpc[i] = "finish"
    /\ Return(i, PyTrue)
    /\ UNCHANGED <<bpc, burls, bok, bwidth, tpct, tev, hasPbar, lastPct, bres, bsrc>>
    /\ UNCHANGED <<pbarPos, topPct>>
    /\ UNCHANGED notBatch

\* An AttributeError left progress_hook inside the library. What the library
\* does with a hook's exception is its own business: it lets it through to
\* the handlers of lines 448-450 (download returns False) ...
HookErrorPropagates(i) ==
    /\ tpc[i] = "hook_raised"
    /\ Return(i, PyFalse)
    /\ UNCHANGED <<bpc, burls, bok, bwidth, tpct, tev, hasPbar, lastPct, bres, bsrc>>
    /\ UNCHANGED <<pbarPos, topPct>>
    /\ UNCHANGED notBatch

\* ... or, with 'ignoreerrors' set (line 355), reports it and gives the URL
\* up without raising, and download goes on to line 452
HookErrorSwallowed(i) ==
    /\ tpc[i] = "hook_raised"
    /\ Step(i, "finish")
    /\ UNCHANGED <<bpc, burls, bok, bwidth, tpct, tev, tres, hasPbar, lastPct, bres, bsrc>>
    /\ UNCHANGED <<pbarPos, topPct>>
    /\ UNCHANGED notBatch

----------------------------------------------------------------------------
(* batch_download *)

\* a collection of the results in the order the futures complete
NextResultAsCompleted(k, done) == done

\* line 461: [f.result() for f in futures] takes the futures in list order;
\* k results are in the list, done is the set of finished futures whose
\* result is not in the list
NextResult(k, done) == {i \in done : i = k + 1}

BatchInit ==
    /\ bpc = "idle"
    /\ burls \in 0..MaxUrls
    /\ bok \in [1..burls -> BOOLEAN]
    /\ bwidth \in 1..MaxWorkers
    /\ tpc = [i \in 1..burls |-> "queued"]
    /\ tpct = [i \in 1..burls |-> NoTotal]
    /\ tev = [i \in 1..burls |-> 0]
    /\ tres = [i \in 1..burls |-> "none"]
    /\ hasPbar = FALSE
    /\ lastPct = 0
    /\ pbarPos = 0
    /\ topPct = 0
    /\ bres = <<>>
    /\ bsrc = <<>>

\* the batch component at rest
BatchIdle ==
    /\ bpc = "idle"
    /\ burls = 0
    /\ bok = <<>>
    /\ bwidth = 1
    /\ tpc = <<>> /\ tpct = <<>> /\ tev = <<>> /\ tres = <<>>
    /\ hasPbar = FALSE
    /\ lastPct = 0
    /\ pbarPos = 0
    /\ topPct = 0
    /\ bres = <<>>
    /\ bsrc = <<>>

\* lines 459-460: the pool is made and every URL submitted
Submit ==
    /\ bpc = "idle"
    /\ bpc' = "collecting"
    /\ UNCHANGED <<burls, bok, bwidth, tpc, tpct, tev, tres, hasPbar, lastPct, bres, bsrc>>
    /\ UNCHANGED <<pbarPos, topPct>>
    /\ UNCHANGED notBatch

\* line 461: f.result() of the next future, once it is done
Collect ==
    /\ bpc = "collecting"
    /\ \E i \in NextResult(Len(bres), {j \in Futures : tpc[j] = "done"} \ {bsrc[k] : k \in 1..Len(bsrc)}) :
          /\ bres' = Append(bres, tres[i])
          /\ bsrc' = Append(bsrc, i)
    /\ UNCHANGED <<bpc, burls, bok, bwidth, tpc, tpct, tev, tres, hasPbar, lastPct>>
    /\ UNCHANGED <<pbarPos, topPct>>
    /\ UNCHANGED notBatch

\* the list is complete, the pool shuts down and batch_download returns
BatchReturn ==
    /\ bpc = "collecting" /\ Len(bres) = burls
    /\ bpc' = "returned"
    /\ UNCHANGED <<burls, bok, bwidth, tpc, tpct, tev, tres, hasPbar, lastPct, bres, bsrc>>
    /\ UNCHANGED <<pbarPos, topPct>>
    /\ UNCHANGED notBatch

BatchNext ==
    \/ Submit
    \/ Collect
    \/ BatchReturn
    \/ \E i \in Futures : Start(i)
    \/ \E i \in Futures : ResetCheck(i)
    \/ \E i \in Futures : ResetDel(i)
    \/ \E i \in Futures : ResetPct(i)
    \/ \E i \in Futures : RetrievalFails(i)
    \/ \E i \in Futures : HookCheck(i)
    \/ \E i \in Futures : HookCreate(i)
    \/ \E i \in Futures : HookCompare(i)
    \/ \E i \in Futures : HookUpdate(i)
    \/ \E i \in Futures : EventFinished(i)
    \/ \E i \in Futures : FinishClose(i)
    \/ \E i \in Futures : FinishReset(i)
    \/ \E i \in Futures : DownloadReturns(i)
    \/ \E i \in Futures : HookErrorPropagates(i)
    \/ \E i \in Futures : HookErrorSwallowed(i)
    \/ \E i \in Futures, p \in EventPcts : EventDownloading(i, p)


----------------------------------------------------------------------------
(* Properties of batch_download *)

\* C6: batch_download on N URLs returns exactly N booleans, the i-th being
\* the result of the download of the i-th URL, whatever the order in which
\* the workers finish and whichever downloads fail.
C6_BatchResultsInOrder ==
    bpc = "returned" =>
        /\ Len(bres) = burls
        /\ \A i \in 1..burls :
              /\ bres[i] \in {PyTrue, PyFalse}
              /\ bsrc[i] = i
              /\ bres[i] = tres[i]

\* a batch of at least two URLs has returned with a failure and a success
C6_Witness ==
    /\ bpc = "returned"
    /\ burls >= 2
    /\ bres[1] = PyFalse /\ bres[2] = PyTrue

\* C7: the shared progress-bar state only affects the display: in every
\* interleaving each URL gets the result it gets when downloaded alone.
C7_ResultsAsAlone ==
    \A i \in Futures : tpc[i] = "done" => tres[i] = AloneResult(i)

\* no thread is inside progress_hook or inside the reset of lines 425-427
HooksAtRest ==
    \A i \in Futures :
        tpc[i] \notin {"reset_del", "reset_pct", "h_check", "h_create", "h_compare",
                       "h_update", "f_close", "f_reset"}

\* the highest percentage among the lines of a progress stream, 0 without one
HighestProgress(lines, length) ==
    LET pcts == {ProgressOf(lines[k].ms, length) :
                    k \in {j \in DOMAIN lines : lines[j].key /\ lines[j].int}}
                \cup {0}
    IN CHOOSE m \in pcts : \A q \in pcts : q <= m

\* C11: the position of a progress bar is the highest percentage reported so
\* far and lies between 0 and 100: for the bar of progress_hook, once the
\* reports received since the last reset have been handled, and for the bar
\* of convert_to_flac, after the encoder's progress lines.
C11_BarAtHighestReport ==
    /\ pbarPos \in 0..100
    /\ (hasPbar /\ HooksAtRest) => pbarPos = topPct
    /\ cbar # NoBar =>
          /\ cbar \in 0..100
          /\ cbar = HighestProgress(clines, fs[cin].len)


----------------------------------------------------------------------------
(* load_config, DEFAULT_CONFIG and the construction of the manager *)

\* the keys of DEFAULT_CONFIG in the order of lines 70-75
KeyOrder == <<"ffmpeg_location", "video_output", "audio_output", "max_concurrent">>
\* a key the program does not know, as a user may have put into the file
AllKeyOrder == KeyOrder \o <<"theme">>

SeqRange(q) == {q[i] : i \in DOMAIN q}

\* DEFAULT_CONFIG as the module defines it, lines 70-75
DEFAULT_CONFIG ==
    [k \in SeqRange(KeyOrder) |->
        CASE k = "ffmpeg_location" -> ""
          [] k = "video_output" -> "~/Videos"
          [] k = "audio_output" -> "~/Music"
          [] k = "max_concurrent" -> 3]

\* the value a user may have given a key in the file
UserValue(k) ==
    CASE k = "ffmpeg_location" -> "D:/tools/ffmpeg/bin"
      [] k = "video_output" -> "D:/video"
      [] k = "audio_output" -> "D:/audio"
      [] k = "max_concurrent" -> 5
      [] k = "theme" -> "dark"

\* json.dump(d, f): the object's members, in the order of the dict's keys
JsonDump(d) ==
    LET ks == SelectSeq(AllKeyOrder, LAMBDA k : k \in DOMAIN d)
    IN  [i \in 1..Len(ks) |-> <<ks[i], d[ks[i]]>>]

\* json.load(f): a dict of the members, the last of a repeated name winning
JsonLoad(members) ==
    LET names == {members[i][1] : i \in DOMAIN members}
        last(k) == CHOOSE i \in DOMAIN members :
                      /\ members[i][1] = k
                      /\ \A j \in DOMAIN members : members[j][1] = k => j <= i
    IN  [k \in names |-> members[last(k)][2]]

\* {**a, **b}
Merge(a, b) ==
    [k \in DOMAIN a \cup DOMAIN b |-> IF k \in DOMAIN b THEN b[k] ELSE a[k]]

NoConfigFile == [state |-> "absent", members |-> <<>>]
CorruptConfigFile == [state |-> "corrupt", members |-> <<>>]
JsonFile(members) == [state |-> "json", members |-> members]

\* the files a run may find
ConfigFiles ==
    {NoConfigFile, CorruptConfigFile} \cup
    {JsonFile(JsonDump([k \in S |-> UserValue(k)])) : S \in SUBSET SeqRange(AllKeyOrder)}

\* a load that returns the defaults and writes nothing
LoadMissingNoWrite(d) == [file |-> NoConfigFile, config |-> d, aliased |-> TRUE]

\* lines 553-556, the file is missing; d is DEFAULT_CONFIG: the file written
\* and the dict returned, which is d itself
LoadMissing(d) == [file |-> JsonFile(JsonDump(d)), config |-> d, aliased |-> TRUE]

\* lines 551-552, the file is there: the defaults with the file's members over them
LoadExisting(d, file) ==
    [file |-> file, config |-> Merge(d, JsonLoad(file.members)), aliased |-> FALSE]

\* where the encoder is on this machine, and the --output-dir of this run
CommonLocations ==
    <<"C:/ffmpeg/bin", "C:/Program Files/ffmpeg/bin",
      "C:/ffmpeg/ffmpeg-master-latest-win64-gpl/bin", "./ffmpeg/bin">>

Machines ==
    [onPath : BOOLEAN,        \* 'ffmpeg -version' runs
     located : {0, 1, 4},     \* the first common location holding ffmpeg.exe, 0: none
     cwdEntry : BOOLEAN,      \* the working directory has an entry named ffmpeg
     userPath : BOOLEAN,      \* the location named in the file exists
     outputDir : {"", "E:/out"}]

NoRun == <<>>

\* find_ffmpeg, lines 77-96; "" stands for None
find_ffmpeg(m) ==
    IF m.onPath THEN "ffmpeg"
    ELSE IF m.located # 0 THEN CommonLocations[m.located]
    ELSE ""

\* os.path.exists of an encoder location
LocationExists(m, loc) ==
    IF loc = "ffmpeg" THEN m.cwdEntry
    ELSE IF loc \in SeqRange(CommonLocations) THEN m.located # 0 /\ CommonLocations[m.located] = loc
    ELSE m.userPath

CfgInit ==
    /\ cfgFile \in ConfigFiles
    /\ defaults = DEFAULT_CONFIG
    /\ config = NoRun
    /\ aliased = FALSE
    /\ created = FALSE
    /\ ppc = "start"
    /\ penv \in Machines
    /\ dirs = {}
    /\ pgiven = "-"
    /\ nruns = 1

\* the configuration component at rest
CfgIdle ==
    /\ cfgFile = NoConfigFile
    /\ defaults = DEFAULT_CONFIG
    /\ config = NoRun
    /\ aliased = FALSE
    /\ created = FALSE
    /\ ppc = "start"
    /\ penv = [onPath |-> FALSE, located |-> 0, cwdEntry |-> FALSE, userPath |-> FALSE,
               outputDir |-> ""]
    /\ dirs = {}
    /\ pgiven = "-"
    /\ nruns = 1

\* load_config(), lines 549-556, the file missing or readable
LoadConfig ==
    /\ ppc = "start" /\ cfgFile.state # "corrupt"
    /\ LET r == IF cfgFile.state = "absent" THEN LoadMissing(defaults)
                ELSE LoadExisting(defaults, cfgFile)
       IN  /\ cfgFile' = r.file
           /\ config' = r.config
           /\ aliased' = r.aliased
    /\ created' = (cfgFile.state = "absent")
    /\ ppc' = "loaded"
    /\ UNCHANGED <<defaults, penv, dirs, pgiven, nruns>>
    /\ UNCHANGED notCfg

\* load_config(), the file is no JSON: json.load raises, and only
\* FileNotFoundError is caught (line 553)
LoadConfigRaises ==
    /\ ppc = "start" /\ cfgFile.state = "corrupt"
    /\ ppc' = "raised"
    /\ UNCHANGED <<cfgFile, defaults, config, aliased, created, penv, dirs, pgiven, nruns>>
    /\ UNCHANGED notCfg

\* an assignment config[k] = v: it reaches DEFAULT_CONFIG when config is that object
Assign(k, v) ==
    /\ config' = [config EXCEPT ![k] = v]
    /\ defaults' = IF aliased THEN [defaults EXCEPT ![k] = v] ELSE defaults

\* main, lines 661-663: --output-dir replaces both output directories
OverrideOutputDir ==
    /\ ppc = "loaded" /\ penv.outputDir # ""
    /\ config' = [config EXCEPT !["video_output"] = penv.outputDir,
                                !["audio_output"] = penv.outputDir]
    /\ defaults' = IF aliased THEN config' ELSE defaults
    /\ ppc' = "overridden"
    /\ UNCHANGED <<cfgFile, aliased, created, penv, dirs, pgiven, nruns>>
    /\ UNCHANGED notCfg

\* DownloadManager(config), lines 148-160 with verify_paths, lines 172-176
Construct ==
    /\ ppc \in {"loaded", "overridden"}
    /\ pgiven' = config["ffmpeg_location"]
    /\ LET found == find_ffmpeg(penv)
           loc == IF config["ffmpeg_location"] = "" THEN found ELSE config["ffmpeg_location"]
       IN  IF loc = ""
           THEN /\ ppc' = "raised"
                /\ UNCHANGED <<config, defaults, dirs>>
           ELSE /\ Assign("ffmpeg_location", loc)
                /\ IF LocationExists(penv, loc)
                   THEN /\ dirs' = dirs \cup {config["video_output"], config["audio_output"]}
                        /\ ppc' = "constructed"
                   ELSE /\ ppc' = "raised"
                        /\ UNCHANGED dirs
    /\ UNCHANGED <<cfgFile, aliased, created, penv, nruns>>
    /\ UNCHANGED notCfg

\* the process ends and the program is run again: the module is loaded anew,
\* the files stay, and the user may have removed config.json in between
RunAgain(keep) ==
    /\ ppc \in {"constructed", "raised"} /\ nruns < MaxRuns
    /\ nruns' = nruns + 1
    /\ cfgFile' = IF keep THEN cfgFile ELSE NoConfigFile
    /\ defaults' = DEFAULT_CONFIG
    /\ config' = NoRun
    /\ aliased' = FALSE
    /\ created' = FALSE
    /\ ppc' = "start"
    /\ pgiven' = "-"
    /\ UNCHANGED <<penv, dirs>>
    /\ UNCHANGED notCfg

CfgNext ==
    \/ LoadConfig
    \/ LoadConfigRaises
    \/ OverrideOutputDir
    \/ Construct
    \/ \E keep \in BOOLEAN : RunAgain(keep)


----------------------------------------------------------------------------
(* Properties of load_config *)

\* C8: when the config file does not exist, load_config creates a file that
\* holds exactly the default keys and values and returns those defaults.
C8_MissingConfigCreated ==
    (ppc = "loaded" /\ created) =>
        /\ cfgFile.state = "json"
        /\ cfgFile.members =
              << <<"ffmpeg_location", "">>, <<"video_output", "~/Videos">>,
                 <<"audio_output", "~/Music">>, <<"max_concurrent", 3>> >>
        /\ config = DEFAULT_CONFIG

\* a run has just loaded a configuration from a missing file
C8_Witness == ppc = "loaded" /\ created /\ cfgFile.state = "json"

\* DownloadManager(config) has run, with no encoder location in the config
ConstructedUnconfigured == pgiven = "" /\ ppc \in {"constructed", "raised"}

\* C12: with no encoder location configured, when find_ffmpeg finds the
\* encoder the construction of the manager completes and both output
\* directories are made, and it raises only when the encoder is not found.
C12_ConstructsWhenEncoderFound ==
    ConstructedUnconfigured =>
        /\ find_ffmpeg(penv) # "" =>
              /\ ppc = "constructed"
              /\ {config["video_output"], config["audio_output"]} \subseteq dirs
        /\ ppc = "raised" => find_ffmpeg(penv) = ""

----------------------------------------------------------------------------
(* download: get_download_options, the library call and post_process_hook *)

AudioFormats == {"mp3", "flac", "wav", "m4a"}

\* the calls of download; url says only whether 'tiktok.com' is in the URL
Requests ==
    [tiktok : BOOLEAN, audio_only : BOOLEAN, audio_format : AudioFormats,
     resolution : {"", "1080"}, format_id : {"", "137+140"}, filename : {"", "my_video"}]

\* what the library does: extract_info gives the metadata, gives nothing or
\* raises; the retrieval succeeds or raises
Libraries ==
    [info : {"ok", "none", "DownloadError", "Exception"}, retrieved : BOOLEAN]

NoRequest == [tiktok |-> FALSE, audio_only |-> FALSE, audio_format |-> "mp3",
              resolution |-> "", format_id |-> "", filename |-> ""]
NoLibrary == [info |-> "ok", retrieved |-> TRUE]
NoOptions == [format |-> "", outdir |-> "", outname |-> "", cookiefile |-> FALSE,
              postprocessors |-> <<>>]

ExtractAudio(codec, quality) ==
    [key |-> "FFmpegExtractAudio", preferredcodec |-> codec, preferredquality |-> quality]
Metadata == [key |-> "FFmpegMetadata", preferredcodec |-> "", preferredquality |-> ""]

\* lines 343-348
FormatOption(r) ==
    IF r.audio_only THEN "bestaudio[ext=webm]/bestaudio[ext=m4a]/bestaudio"
    ELSE IF r.resolution # "" THEN "bestvideo[height<=1080]+bestaudio/best[height<=1080]/best"
    ELSE "bestvideo+bestaudio/best"

\* lines 361-383
PostProcessors(r) ==
    IF ~r.audio_only THEN <<>>
    ELSE IF r.audio_format = "flac" THEN <<ExtractAudio("flac", "0"), Metadata>>
    ELSE <<ExtractAudio(r.audio_format, IF r.audio_format = "mp3" THEN "320" ELSE "0")>>

\* get_download_options, lines 315-388; cfg is self.config
get_download_options(cfg, r) ==
    LET dir == IF r.audio_only THEN cfg["audio_output"] ELSE cfg["video_output"]
        name == IF r.filename # "" THEN r.filename ELSE "%(title)s"
    IN  IF r.tiktok
        THEN [format |-> "best", outdir |-> dir, outname |-> name, cookiefile |-> TRUE,
              postprocessors |-> <<>>]
        ELSE [format |-> IF r.format_id # "" THEN r.format_id ELSE FormatOption(r),
              outdir |-> dir, outname |-> name, cookiefile |-> FALSE,
              postprocessors |-> PostProcessors(r)]

\* the file names a post-processing event may carry; "" when it has none
EventNames == {"", "song.wav", "out.flac"}
\* the file the library has left under the name out.flac
ProducedFiles == {GoodFlac(InLen), AudioFile(TRUE, 6, 48000, 2000000, "none", InLen)}

\* a post_process_hook that starts the conversion pipeline on a finished file
post_process_hook_converting(status, name, file) ==
    IF status = "finished" /\ IsFlacName(name)
    THEN [calls |-> {"convert_to_flac"}, msgs |-> {}]
    ELSE [calls |-> {}, msgs |-> IF status = "started" THEN {"Post-processing"} ELSE {}]

\* post_process_hook, lines 390-401: the methods it calls and what it prints
post_process_hook(status, name, file) ==
    IF status = "started" THEN [calls |-> {}, msgs |-> {"Post-processing"}]
    ELSE IF status = "finished" /\ IsFlacName(name)
    THEN LET v == verify_audio_file([q \in Paths |-> IF q = name THEN file ELSE NoFile], name)
         IN  [calls |-> {"verify_audio_file"},
              msgs |-> IF Truthy(v.ret) THEN {"FLAC conversion successful"}
                       ELSE {"FLAC verification failed"}]
    ELSE [calls |-> {}, msgs |-> {}]

DlInit ==
    /\ dpc = "idle"
    /\ dreq \in Requests
    /\ dlib \in Libraries
    /\ dopts = NoOptions
    /\ dcalls = {}
    /\ dhooked = {}
    /\ dmsgs = {}
    /\ dres = "none"

\* the download component at rest
DlIdle ==
    /\ dpc = "idle"
    /\ dreq = NoRequest
    /\ dlib = NoLibrary
    /\ dopts = NoOptions
    /\ dcalls = {}
    /\ dhooked = {}
    /\ dmsgs = {}
    /\ dres = "none"

\* download(url, **kwargs), lines 403-429: up to the library object being
\* made with the options of get_download_options
DownloadCall ==
    /\ dpc = "idle" /\ dres = "none"
    /\ dopts' = get_download_options(DEFAULT_CONFIG, dreq)
    /\ dcalls' = dcalls \cup {"get_download_options"}
    /\ dpc' = "extract"
    /\ UNCHANGED <<dreq, dlib, dhooked, dmsgs, dres>>
    /\ UNCHANGED notDl

\* lines 432-434 with the handlers of lines 443-450
ExtractInfo ==
    /\ dpc = "extract"
    /\ IF dlib.info = "ok"
       THEN dpc' = "retrieve" /\ UNCHANGED dres
       ELSE dpc' = "done" /\ dres' = PyFalse
    /\ UNCHANGED <<dreq, dlib, dopts, dcalls, dhooked, dmsgs>>
    /\ UNCHANGED notDl

\* line 441, ydl.download([url]): the retrieval, reported to progress_hook
Retrieve ==
    /\ dpc = "retrieve"
    /\ dcalls' = dcalls \cup {"progress_hook"}
    /\ IF dlib.retrieved
       THEN dpc' = "postprocess" /\ UNCHANGED dres
       ELSE dpc' = "done" /\ dres' = PyFalse
    /\ UNCHANGED <<dreq, dlib, dopts, dhooked, dmsgs>>
    /\ UNCHANGED notDl

\* still line 441: the library runs a post-processor and reports it to
\* post_process_hook
PostProcessEvent(status, name, file) ==
    /\ dpc = "postprocess" /\ Cardinality(dhooked) < MaxPostEvents
    /\ <<status, name>> \notin dhooked
    /\ LET h == post_process_hook(status, name, file) IN
          /\ dcalls' = dcalls \cup {"post_process_hook"} \cup h.calls
          /\ dmsgs' = dmsgs \cup h.msgs
    /\ dhooked' = dhooked \cup {<<status, name>>}
    /\ UNCHANGED <<dpc, dreq, dlib, dopts, dres>>
    /\ UNCHANGED notDl

\* line 452: return True
DownloadReturn ==
    /\ dpc = "postprocess"
    /\ dpc' = "done"
    /\ dres' = PyTrue
    /\ UNCHANGED <<dreq, dlib, dopts, dcalls, dhooked, dmsgs>>
    /\ UNCHANGED notDl

DlNext ==
    \/ DownloadCall
    \/ ExtractInfo
    \/ Retrieve
    \/ \E st \in {"started", "finished"}, n \in EventNames, f \in ProducedFiles :
          PostProcessEvent(st, n, f)
    \/ DownloadReturn

----------------------------------------------------------------------------
(* Properties of the download flow *)

FlacRequest == dreq.audio_only /\ dreq.audio_format = "flac"

\* C10, as claimed: an audio-only request for flac whose retrieval succeeds
\* has run convert_to_flac by the time download returns.
C10_ConvertInvoked ==
    (dpc = "done" /\ FlacRequest /\ dres = PyTrue) => "convert_to_flac" \in dcalls

\* C10, as amended: download never runs convert_to_flac. An audio-only flac
\* request for a URL outside TikTok hands the conversion to the library's own
\* post-processors, FFmpegExtractAudio with codec flac and then
\* FFmpegMetadata, and post_process_hook runs verify_audio_file on every
\* finished file whose name ends in .flac.
C10_LibraryConvertsHookVerifies ==
    /\ "convert_to_flac" \notin dcalls
    /\ (dpc # "idle" /\ FlacRequest /\ ~dreq.tiktok) =>
          dopts.postprocessors = <<ExtractAudio("flac", "0"), Metadata>>
    /\ (\E n \in EventNames : IsFlacName(n) /\ <<"finished", n>> \in dhooked) =>
          "verify_audio_file" \in dcalls

\* a flac request has returned true after a finished .flac file was reported
C10_Witness ==
    /\ dpc = "done" /\ FlacRequest /\ ~dreq.tiktok /\ dres = PyTrue
    /\ <<"finished", "out.flac">> \in dhooked

----------------------------------------------------------------------------
(* Properties of verify_audio_file and convert_to_flac *)

\* the file the last direct verify_audio_file call looked at
VerifiedFile == fs[vpath]

\* C1: verify_audio_file returns true if and only if the file has 1 or 2
\* channels, a sample rate of 44100, 48000 or 96000 and at least 102400 bytes.
C1_VerifyIffConditions ==
    vres # "none" => (vres = PyTrue <=> SatisfiesConditions(VerifiedFile))

\* the call of convert_to_flac has come to its end, by a return or by an
\* exception leaving it
ConvertEnded == cpc \in {"returned", "raised"}

\* C2: when the input satisfies the verification conditions, the encoder
\* exits with code 0, its output satisfies the conditions and the durations
\* differ by at most 100 ms, convert_to_flac returns true and the output exists.
C2_ConvertSucceeds ==
    (/\ ConvertEnded
     /\ SatisfiesConditions(fs[cin])
     /\ cenc.launch /\ cenc.rc = 0
     /\ SatisfiesConditions(cenc.out)
     /\ ~DurationMismatch(fs[cin].len, cenc.out.len))
    => (cres = PyTrue /\ Exists(fs, cout))

\* the encoder of the call runs and leaves a file
EncoderLeavesFile == cenc.launch /\ cenc.out.kind = "file"

MismatchOnly ==
    /\ SatisfiesConditions(fs[cin])
    /\ cenc.launch /\ cenc.rc = 0
    /\ SatisfiesConditions(cenc.out)
    /\ DurationMismatch(fs[cin].len, cenc.out.len)

ReturnedFalse == cpc = "returned" /\ cres = PyFalse

C13_PreverifyFailureKeepsOutput ==
    (ReturnedFalse /\ cstage = "preverify" /\ cprior) => Exists(fs, cout)

\* C5: no exception leaves convert_to_flac: every failure path prints the
\* failure message and returns false.
C5_NoExceptionEscapes ==
    /\ cpc # "raised"
    /\ (cpc = "returned" /\ cexc # "") => (cprinted /\ cres = PyFalse)

\* The try body never gets past the verification of the input: no call
\* launches the encoder, verifies an output or compares durations.
PipelineStopsAtPreverify == cstage \in {"", "preverify"}

----------------------------------------------------------------------------
(* interactive_mode *)

\* the lines a user may type, after strip() and split into words
TypedLines ==
    {<<>>, <<"--Q">>, <<"--q">>, <<"--help">>, <<"--q", "url">>, <<"url">>,
     <<"url", "--audio-only">>, <<"url", "--resolution">>,
     <<"url", "--resolution", "720">>, <<"url", "--audio-format", "flac">>}

\* str.lower() on the words that matter
Lower(w) == IF w = "--Q" THEN "--q" ELSE w

\* lines 503, 510: the whole line is the token
IsQuit(line) == Len(line) = 1 /\ Lower(line[1]) = "--q"
IsHelp(line) == Len(line) = 1 /\ Lower(line[1]) = "--help"

\* args[args.index(flag) + 1], or the default when the flag is missing or last
ValueAfter(args, flag, default) ==
    LET at == {k \in DOMAIN args : args[k] = flag} IN
    IF at = {} THEN default
    ELSE LET first == CHOOSE k \in at : \A j \in at : k <= j IN
         IF first + 1 \in DOMAIN args THEN args[first + 1] ELSE default

\* lines 515-536: the URL and the options of the download
ParseLine(args) ==
    [url |-> args[1],
     audio_only |-> \E k \in DOMAIN args : args[k] = "--audio-only",
     resolution |-> ValueAfter(args, "--resolution", "None"),
     audio_format |-> ValueAfter(args, "--audio-format", "mp3")]

NoCall == [url |-> "", audio_only |-> FALSE, resolution |-> "None", audio_format |-> "mp3"]

IntInit ==
    /\ ipc = "idle"
    /\ istream \in UNION {[1..n -> TypedLines] : n \in 0..MaxTyped}
    /\ iend \in {"eof", "interrupt"}
    /\ icall = NoCall
    /\ idone = <<>>

\* the interactive loop not in use
IntIdle ==
    /\ ipc = "idle"
    /\ istream = <<>>
    /\ iend = "eof"
    /\ icall = NoCall
    /\ idone = <<>>

\* lines 496-497: the welcome and the menu, then the loop is entered
Enter ==
    /\ ipc = "idle"
    /\ ipc' = "prompt"
    /\ UNCHANGED <<istream, iend, icall, idone>>
    /\ UNCHANGED notInt

\* lines 501-505: input() yields the quit token, the loop is left by break
ReadQuit ==
    /\ ipc = "prompt" /\ istream # <<>> /\ IsQuit(Head(istream))
    /\ ipc' = "returned"
    /\ istream' = Tail(istream)
    /\ UNCHANGED <<iend, icall, idone>>
    /\ UNCHANGED notInt

\* lines 507-512: an empty line, or the help token: continue
ReadSkipped ==
    /\ ipc = "prompt" /\ istream # <<>>
    /\ Head(istream) = <<>> \/ IsHelp(Head(istream))
    /\ istream' = Tail(istream)
    /\ UNCHANGED <<ipc, iend, icall, idone>>
    /\ UNCHANGED notInt

\* lines 515-539: any other line is parsed and download is called
ReadRequest ==
    /\ ipc = "prompt" /\ istream # <<>>
    /\ LET line == Head(istream) IN
          /\ line # <<>> /\ ~IsQuit(line) /\ ~IsHelp(line)
          /\ icall' = ParseLine(line)
    /\ istream' = Tail(istream)
    /\ ipc' = "download"
    /\ UNCHANGED <<iend, idone>>
    /\ UNCHANGED notInt

\* line 540: download returns True or False (it catches every Exception,
\* lines 454-456); its value is dropped and the loop goes on
DownloadEnds(ok) ==
    /\ ipc = "download"
    /\ idone' = Append(idone, ok)
    /\ ipc' = "prompt"
    /\ UNCHANGED <<istream, iend, icall>>
    /\ UNCHANGED notInt

\* line 542: KeyboardInterrupt at the prompt: the loop is left by break
ReadInterrupted ==
    /\ ipc = "prompt" /\ istream = <<>> /\ iend = "interrupt"
    /\ ipc' = "returned"
    /\ UNCHANGED <<istream, iend, icall, idone>>
    /\ UNCHANGED notInt

\* line 501 at the end of the input stream: input() raises EOFError, an
\* Exception, which line 545 catches
ReadEndOfStream ==
    /\ ipc = "prompt" /\ istream = <<>> /\ iend = "eof"
    /\ ipc' = "handler"
    /\ UNCHANGED <<istream, iend, icall, idone>>
    /\ UNCHANGED notInt

\* lines 546-547: the handler prints the error and the hint; the while goes on
HandlerEnds ==
    /\ ipc = "handler"
    /\ ipc' = "prompt"
    /\ UNCHANGED <<istream, iend, icall, idone>>
    /\ UNCHANGED notInt

IntNext ==
    \/ Enter
    \/ ReadQuit
    \/ ReadSkipped
    \/ ReadRequest
    \/ \E ok \in {PyTrue, PyFalse} : DownloadEnds(ok)
    \/ ReadInterrupted
    \/ ReadEndOfStream
    \/ HandlerEnds

----------------------------------------------------------------------------
(* Properties of interactive_mode *)

\* the loop is running and the user has nothing more to type
InputEnded == ipc \in {"prompt", "download", "handler"} /\ istream = <<>>

\* the step by which the loop is left reads the quit token or is interrupted
LeavesOnQuitOrInterrupt ==
    (ipc # "returned" /\ ipc' = "returned") =>
        /\ ipc = "prompt"
        /\ \/ istream # <<>> /\ IsQuit(Head(istream))
           \/ istream = <<>> /\ iend = "interrupt"

\* C14: once the input has ended (quit token, keyboard interrupt or end of
\* the input stream) interactive_mode eventually returns, and nothing else
\* ends the loop: neither a failed download nor a malformed line.
C14_LoopEndsWithInput ==
    /\ InputEnded ~> (ipc = "returned")
    /\ [][LeavesOnQuitOrInterrupt]_vars

----------------------------------------------------------------------------
(* Specifications: one per component, the other components at rest *)

\* verify_audio_file and convert_to_flac
Init == ConvInit /\ BatchIdle /\ CfgIdle /\ DlIdle /\ IntIdle
Next == ConvNext
Spec == Init /\ [][Next]_vars

\* batch_download and its worker threads
InitBatch == ConvIdle /\ BatchInit /\ CfgIdle /\ DlIdle /\ IntIdle
SpecBatch == InitBatch /\ [][BatchNext]_vars

\* load_config and the construction of the manager
InitConfig == ConvIdle /\ BatchIdle /\ CfgInit /\ DlIdle /\ IntIdle
SpecConfig == InitConfig /\ [][CfgNext]_vars

\* one call of download
InitDownload == ConvIdle /\ BatchIdle /\ CfgIdle /\ DlInit /\ IntIdle
SpecDownload == InitDownload /\ [][DlNext]_vars

\* interactive_mode; the program does not stop by itself between two steps
InitInteractive == ConvIdle /\ BatchIdle /\ CfgIdle /\ DlIdle /\ IntInit
SpecInteractive == InitInteractive /\ [][IntNext]_vars /\ WF_vars(IntNext)

====
